---- MODULE Spec2Model ----
(***************************************************************************)
(* Model of device/scripts/change_defines.py (SEAL-Embedded): the          *)
(* line-based rewriter file_line_rep, the five set_*_define passes over    *)
(* lib/user_defines.h and the command-line driver main.                    *)
(*                                                                         *)
(* Text is modelled character by character: a line is a sequence of        *)
(* one-character strings (its trailing "\n" included, as readlines keeps   *)
(* it), a file is a sequence of lines.                                     *)
(***************************************************************************)
EXTENDS Integers, Sequences, FiniteSets, TLC

VARIABLES file, file0, pc, vals, pass, filedata, out, status, log, stale, fn

vars == <<file, file0, pc, vals, pass, filedata, out, status, log, stale, fn>>

driverVars == <<file, file0, pc, vals, pass, filedata, out, status, log, stale>>

----------------------------------------------------------------------------
(* Bounds *)

\* longest file (in lines) given to file_line_rep on its own
MaxLines == 2

\* largest option argument given on the command line
MaxArg == 5

----------------------------------------------------------------------------
(* Python string primitives used by the script *)

Digit(d) == CASE d = 0 -> "0" [] d = 1 -> "1" [] d = 2 -> "2" [] d = 3 -> "3"
              [] d = 4 -> "4" [] d = 5 -> "5" [] d = 6 -> "6" [] d = 7 -> "7"
              [] d = 8 -> "8" [] d = 9 -> "9"

RECURSIVE natstr(_)
natstr(n) == IF n < 10 THEN <<Digit(n)>> ELSE natstr(n \div 10) \o <<Digit(n % 10)>>

\* str(i) on an int: decimal digits, a leading "-" for a negative value
str(i) == IF i < 0 THEN <<"-">> \o natstr(0 - i) ELSE natstr(i)

startswith(s, sub) == Len(sub) <= Len(s) /\ SubSeq(s, 1, Len(sub)) = sub

\* s.find(sub): lowest 0-based index where sub occurs, -1 when it does not
RECURSIVE findfrom(_, _, _)
findfrom(s, sub, i) ==
    IF i + Len(sub) > Len(s) THEN -1
    ELSE IF SubSeq(s, i + 1, i + Len(sub)) = sub THEN i
    ELSE findfrom(s, sub, i + 1)

find(s, sub) == findfrom(s, sub, 0)

\* replace as s.replace(old, new, 1) would do it: the first occurrence only
RECURSIVE replace_first(_, _, _)
replace_first(s, old, new) ==
    IF Len(s) < Len(old) THEN s
    ELSE IF startswith(s, old)
         THEN new \o SubSeq(s, Len(old) + 1, Len(s))
         ELSE <<Head(s)>> \o replace_first(Tail(s), old, new)

\* s.replace(old, new), old non-empty: every non-overlapping occurrence,
\* scanning from the left
RECURSIVE replace(_, _, _)
replace(s, old, new) ==
    IF Len(s) < Len(old) THEN s
    ELSE IF startswith(s, old)
         THEN new \o replace(SubSeq(s, Len(old) + 1, Len(s)), old, new)
         ELSE <<Head(s)>> \o replace(Tail(s), old, new)

----------------------------------------------------------------------------
(* file_line_rep *)

\* the range checks without the upper bound of the second one
range_error_lower_only(min_val, max_val, set_val) ==
    \/ max_val < min_val
    \/ set_val < min_val

\* lines 12-17: the two range checks that end in a bare raise
range_error(min_val, max_val, set_val) ==
    \/ max_val < min_val
    \/ set_val > max_val \/ set_val < min_val

\* rep_range with range(min_val, max_val): max_val itself is never replaced
RECURSIVE rep_range_excl(_, _, _, _, _)
rep_range_excl(line, base_string, i, max_val, set_val) ==
    IF i >= max_val THEN line
    ELSE rep_range_excl(replace(line, base_string \o <<" ">> \o str(i),
                                      base_string \o <<" ">> \o str(set_val)),
                        base_string, i + 1, max_val, set_val)

\* lines 25-26: for i in range(min_val, max_val+1): line = line.replace(...)
RECURSIVE rep_range(_, _, _, _, _)
rep_range(line, base_string, i, max_val, set_val) ==
    IF i > max_val THEN line
    ELSE rep_range(replace(line, base_string \o <<" ">> \o str(i),
                                 base_string \o <<" ">> \o str(set_val)),
                   base_string, i + 1, max_val, set_val)

\* lines 23-28: one iteration of the loop over filedata
rep_line(line, base_string, min_val, max_val, set_val) ==
    IF find(line, base_string) # -1
    THEN rep_range(line, base_string, min_val, max_val, set_val)
    ELSE line

\* lines 8-33.  raised: the call ended in the bare raise; printed: what the
\* call wrote to stdout; newfiledata: the returned list (when not raised)
file_line_rep(fdata, base_string, min_val, max_val, set_val) ==
    LET setting == [kind |-> "Setting", macro |-> base_string, val |-> set_val]
        error   == [kind |-> "ERROR", macro |-> base_string, val |-> set_val]
    IN  IF range_error(min_val, max_val, set_val)
        THEN [raised |-> TRUE, printed |-> <<setting, error>>, newfiledata |-> <<>>]
        ELSE [raised |-> FALSE, printed |-> <<setting>>,
              newfiledata |-> [k \in 1..Len(fdata) |->
                  rep_line(fdata[k], base_string, min_val, max_val, set_val)]]

----------------------------------------------------------------------------
(* The five macros of set_ifft_define .. set_data_load_define *)

IFFT == <<"#","d","e","f","i","n","e"," ","S","E","_","I","F","F","T","_","T","Y","P","E">>
NTT == <<"#","d","e","f","i","n","e"," ","S","E","_","N","T","T","_","T","Y","P","E">>
INDEX_MAP == <<"#","d","e","f","i","n","e"," ","S","E","_","I","N","D","E","X","_","M","A","P","_","T","Y","P","E">>
SK == <<"#","d","e","f","i","n","e"," ","S","E","_","S","K","_","T","Y","P","E">>
DATA_LOAD == <<"#","d","e","f","i","n","e"," ","S","E","_","D","A","T","A","_","L","O","A","D","_","T","Y","P","E">>

\* the calls of main, lines 143-147, in order, each with the base_string,
\* min_val and max_val its set_*_define passes to file_line_rep
Passes == <<
    [opt |-> "ifft",      name |-> IFFT,      min |-> 0, max |-> 2],
    [opt |-> "ntt",       name |-> NTT,       min |-> 0, max |-> 3],
    [opt |-> "index_map", name |-> INDEX_MAP, min |-> 0, max |-> 4],
    [opt |-> "sk",        name |-> SK,        min |-> 0, max |-> 2],
    [opt |-> "data_load", name |-> DATA_LOAD, min |-> 0, max |-> 2] >>

NumPasses == Len(Passes)

DeclaredMacros == {[name |-> Passes[j].name, min |-> Passes[j].min, max |-> Passes[j].max] :
                      j \in 1..NumPasses}

----------------------------------------------------------------------------
(* Inputs of the stand-alone file_line_rep specification *)

NameM == <<"#","M">>

\* callers of file_line_rep other than the five passes: a negative bound,
\* a two-digit bound, a reversed range
GenericMacros == {[name |-> NameM, min |-> a, max |-> b] : a \in {-1, 2}, b \in {1, 10}}

FnMacros == DeclaredMacros \cup GenericMacros

FnTargets == {0, 1, 2, 3, 10}

OtherLine == <<"#","d","e","f","i","n","e"," ","S","E","_","O","T","H","E","R"," ","7","\n">>

\* lines that exercise macro name n
LinePool(n) == {
    n \o <<" ","0","\n">>,
    n \o <<" ","1","\n">>,
    n \o <<" ","2"," ","/","/"," ","7","\n">>,
    n \o <<" ","1","2","\n">>,
    n \o <<" ","1","0","\n">>,
    n \o <<" ","-","1","\n">>,
    n \o <<" "," ","1","\n">>,
    n \o <<"_","X"," ","1","\n">>,
    n \o <<" ","0"," ">> \o n \o <<" ","1","\n">>,
    n \o <<" ","0"," ">> \o n \o <<" ","0","\n">>,
    OtherLine }

SeqsUpTo(S, n) == UNION {[1..k -> S] : k \in 0..n}

NoFn == [pc |-> "off"]

InitFn ==
    /\ \E m \in FnMacros, t \in FnTargets :
         \E f \in SeqsUpTo(LinePool(m.name), MaxLines) :
            fn = [pc |-> "start", fdata |-> f, macro |-> m, t |-> t]
    /\ file = <<>> /\ file0 = <<>> /\ pc = <<>> /\ vals = <<>> /\ pass = <<>>
    /\ filedata = <<>> /\ out = <<>> /\ status = <<>> /\ log = <<>>
    /\ stale = FALSE

\* a call file_line_rep(filedata, name, min, max, t)
FnApply ==
    /\ fn.pc = "start"
    /\ LET r == file_line_rep(fn.fdata, fn.macro.name, fn.macro.min, fn.macro.max, fn.t)
       IN  fn' = IF r.raised
                 THEN [pc |-> "raised", fdata |-> fn.fdata, macro |-> fn.macro, t |-> fn.t]
                 ELSE [pc |-> "once", fdata |-> fn.fdata, macro |-> fn.macro, t |-> fn.t,
                       res |-> r.newfiledata]
    /\ UNCHANGED driverVars

\* a second call with the same macro and target on the first call's result
FnApplyAgain ==
    /\ fn.pc = "once"
    /\ LET r == file_line_rep(fn.res, fn.macro.name, fn.macro.min, fn.macro.max, fn.t)
       IN  fn' = [pc |-> "twice", fdata |-> fn.fdata, macro |-> fn.macro, t |-> fn.t,
                  res |-> fn.res, res2 |-> r.newfiledata]
    /\ UNCHANGED driverVars

NextFn == FnApply \/ FnApplyAgain

SpecFn == InitFn /\ [][NextFn]_vars

----------------------------------------------------------------------------
(* The driver: main and the five set_*_define passes *)

\* lib/user_defines.h as it may be found before a run
DefLine(name, k) == name \o <<" ">> \o str(k) \o <<"\n">>

FileExample == <<DefLine(IFFT, 0), DefLine(NTT, 1)>>

FileFull == <<OtherLine, DefLine(IFFT, 0), DefLine(NTT, 1), DefLine(INDEX_MAP, 4),
              DefLine(SK, 2), DefLine(DATA_LOAD, 1)>>

FileShuffled == <<DefLine(DATA_LOAD, 2), DefLine(IFFT, 1), DefLine(SK, 0), OtherLine,
                  DefLine(IFFT, 2), DefLine(INDEX_MAP, 0), DefLine(NTT, 3)>>

FileOdd == <<DefLine(IFFT, 12), NTT \o <<" ","0"," ">> \o IFFT \o <<" ","1","\n">>,
             SK \o <<"_","X"," ","1","\n">>, DefLine(DATA_LOAD, 0)>>

Files == {FileExample, FileShuffled, FileOdd}

OptNames == {"ifft", "ntt", "index_map", "sk", "data_load"}

\* the integer arguments tried on the command line
ArgVals == -1..MaxArg

Msg(kind) == [kind |-> kind, macro |-> <<>>, val |-> 0]

\* lines 105-109
Unset == [ifft |-> -1, ntt |-> -1, index_map |-> -1, sk |-> -1, data_load |-> -1]

Running == -1

InitDriver(procs, files) ==
    /\ file \in files
    /\ file0 = file
    /\ pc = [p \in procs |-> "getopt"]
    /\ vals = [p \in procs |-> Unset]
    /\ pass = [p \in procs |-> 1]
    /\ filedata = [p \in procs |-> <<>>]
    /\ out = [p \in procs |-> <<>>]
    /\ status = [p \in procs |-> Running]
    /\ log = [p \in procs |-> <<>>]
    /\ stale = FALSE
    /\ fn = NoFn

Init == InitDriver({1}, Files)

Exit(p, how, code, printed) ==
    /\ pc' = [pc EXCEPT ![p] = how]
    /\ status' = [status EXCEPT ![p] = code]
    /\ out' = [out EXCEPT ![p] = @ \o printed]

\* lines 98-103: getopt rejects the command line
GetoptError(p) ==
    /\ pc[p] = "getopt"
    /\ Exit(p, "usage_error", 2, <<Msg("usage")>>)
    /\ UNCHANGED <<file, file0, vals, pass, filedata, log, stale, fn>>

\* lines 99, 105-109: getopt accepts it, the five values start at -1
GetoptOk(p) ==
    /\ pc[p] = "getopt"
    /\ pc' = [pc EXCEPT ![p] = "opts"]
    /\ vals' = [vals EXCEPT ![p] = Unset]
    /\ UNCHANGED <<file, file0, pass, filedata, out, status, log, stale, fn>>

\* lines 112-115: the next option is -h
Help(p) ==
    /\ pc[p] = "opts"
    /\ Exit(p, "help", 0, <<Msg("usage")>>)
    /\ UNCHANGED <<file, file0, vals, pass, filedata, log, stale, fn>>

\* lines 116-125: the next option is -i/-n/-m/-s/-d (or its long form)
\* with an integer argument
SetOpt(p, opt, arg) ==
    /\ pc[p] = "opts"
    /\ vals' = [vals EXCEPT ![p][opt] = arg]
    /\ UNCHANGED <<file, file0, pc, pass, filedata, out, status, log, stale, fn>>

\* lines 116-125: int(arg) on an argument that is not an integer raises
\* ValueError, which nothing catches
BadInt(p) ==
    /\ pc[p] = "opts"
    /\ Exit(p, "value_error", 1, <<>>)
    /\ UNCHANGED <<file, file0, vals, pass, filedata, log, stale, fn>>

\* the if/elif chain of lines 127-141 with sk tested before index_map
missing_option_sk_first(v) ==
    IF v.ifft < 0 THEN "ifft"
    ELSE IF v.ntt < 0 THEN "ntt"
    ELSE IF v.sk < 0 THEN "sk"
    ELSE IF v.index_map < 0 THEN "index_map"
    ELSE IF v.data_load < 0 THEN "data_load"
    ELSE "none"

\* lines 127-141: the if/elif chain
missing_option(v) ==
    IF v.ifft < 0 THEN "ifft"
    ELSE IF v.ntt < 0 THEN "ntt"
    ELSE IF v.index_map < 0 THEN "index_map"
    ELSE IF v.sk < 0 THEN "sk"
    ELSE IF v.data_load < 0 THEN "data_load"
    ELSE "none"

\* lines 127-141: the options are exhausted; exit on the first missing value
Validate(p) ==
    /\ pc[p] = "opts"
    /\ LET m == missing_option(vals[p])
       IN  IF m # "none"
           THEN /\ Exit(p, "missing", 0, <<Msg("need_" \o m)>>)
                /\ UNCHANGED pass
           ELSE /\ pc' = [pc EXCEPT ![p] = "read"]
                /\ pass' = [pass EXCEPT ![p] = 1]
                /\ UNCHANGED <<out, status>>
    /\ UNCHANGED <<file, file0, vals, filedata, log, stale, fn>>

\* the calls of lines 143-147 with set_sk_define before set_index_map_define
Passes_sk_first == <<Passes[1], Passes[2], Passes[4], Passes[3], Passes[5]>>

\* lines 143-147
Calls == Passes

\* set_*_define, first half (lines 39-40, 52-53, 65-66, 77-78, 89-90):
\* open for reading, readlines
ReadFile(p) ==
    /\ pc[p] = "read"
    /\ filedata' = [filedata EXCEPT ![p] = file]
    /\ log' = [log EXCEPT ![p] = Append(@, <<"r", Calls[pass[p]].opt>>)]
    /\ pc' = [pc EXCEPT ![p] = "rep"]
    /\ UNCHANGED <<file, file0, vals, pass, out, status, stale, fn>>

\* WriteFile with the input restored when file_line_rep raises
WriteFile_rollback(p) ==
    /\ pc[p] = "rep"
    /\ LET c == Calls[pass[p]]
           r == file_line_rep(filedata[p], c.name, c.min, c.max, vals[p][c.opt])
       IN  IF r.raised
           THEN /\ Exit(p, "raised", 1, r.printed)
                /\ file' = file0
                /\ UNCHANGED <<pass, log, stale>>
           ELSE /\ file' = r.newfiledata
                /\ stale' = (stale \/ file # filedata[p])
                /\ log' = [log EXCEPT ![p] = Append(@, <<"w", c.opt>>)]
                /\ out' = [out EXCEPT ![p] = @ \o r.printed]
                /\ IF pass[p] = NumPasses
                   THEN /\ pc' = [pc EXCEPT ![p] = "done"]
                        /\ status' = [status EXCEPT ![p] = 0]
                        /\ UNCHANGED pass
                   ELSE /\ pc' = [pc EXCEPT ![p] = "read"]
                        /\ pass' = [pass EXCEPT ![p] = @ + 1]
                        /\ UNCHANGED status
    /\ UNCHANGED <<file0, vals, filedata, fn>>

\* WriteFile that refuses to write when the file is no longer what was read
WriteFile_detect(p) ==
    /\ pc[p] = "rep"
    /\ LET c == Calls[pass[p]]
           r == file_line_rep(filedata[p], c.name, c.min, c.max, vals[p][c.opt])
       IN  IF r.raised \/ file # filedata[p]
           THEN /\ Exit(p, "raised", 1, r.printed)
                /\ UNCHANGED <<file, pass, log, stale>>
           ELSE /\ file' = r.newfiledata
                /\ stale' = (stale \/ file # filedata[p])
                /\ log' = [log EXCEPT ![p] = Append(@, <<"w", c.opt>>)]
                /\ out' = [out EXCEPT ![p] = @ \o r.printed]
                /\ IF pass[p] = NumPasses
                   THEN /\ pc' = [pc EXCEPT ![p] = "done"]
                        /\ status' = [status EXCEPT ![p] = 0]
                        /\ UNCHANGED pass
                   ELSE /\ pc' = [pc EXCEPT ![p] = "read"]
                        /\ pass' = [pass EXCEPT ![p] = @ + 1]
                        /\ UNCHANGED status
    /\ UNCHANGED <<file0, vals, filedata, fn>>

\* set_*_define, second half (lines 42-45, 55-58, 68-71, 80-83, 92-95):
\* file_line_rep on the lines read, then open for writing and writelines;
\* the bare raise of file_line_rep ends the process before the file is
\* opened for writing.  After the last call main returns (line 147).
WriteFile(p) ==
    /\ pc[p] = "rep"
    /\ LET c == Calls[pass[p]]
           r == file_line_rep(filedata[p], c.name, c.min, c.max, vals[p][c.opt])
       IN  IF r.raised
           THEN /\ Exit(p, "raised", 1, r.printed)
                /\ UNCHANGED <<file, pass, log, stale>>
           ELSE /\ file' = r.newfiledata
                /\ stale' = (stale \/ file # filedata[p])
                /\ log' = [log EXCEPT ![p] = Append(@, <<"w", c.opt>>)]
                /\ out' = [out EXCEPT ![p] = @ \o r.printed]
                /\ IF pass[p] = NumPasses
                   THEN /\ pc' = [pc EXCEPT ![p] = "done"]
                        /\ status' = [status EXCEPT ![p] = 0]
                        /\ UNCHANGED pass
                   ELSE /\ pc' = [pc EXCEPT ![p] = "read"]
                        /\ pass' = [pass EXCEPT ![p] = @ + 1]
                        /\ UNCHANGED status
    /\ UNCHANGED <<file0, vals, filedata, fn>>

\* one invocation of the script
Main == 1

Next ==
    \/ GetoptError(Main)
    \/ GetoptOk(Main)
    \/ Help(Main)
    \/ \E opt \in OptNames, arg \in ArgVals : SetOpt(Main, opt, arg)
    \/ BadInt(Main)
    \/ Validate(Main)
    \/ ReadFile(Main)
    \/ WriteFile(Main)

Spec == Init /\ [][Next]_vars

----------------------------------------------------------------------------
(* Two invocations of the script on the same lib/user_defines.h.  Each
   open/readlines and each open/writelines is one step: the script takes
   no lock and keeps the lines it read in memory between the two. *)

ConcProcs == {1, 2}

\* the integer arguments tried by each of the two invocations
ConcArgVals(p) == IF p = 1 THEN {1} ELSE {2, 3}

InitConc == InitDriver(ConcProcs, {FileFull})

NextConc ==
    \/ \E p \in ConcProcs : GetoptError(p)
    \/ \E p \in ConcProcs : GetoptOk(p)
    \/ \E p \in ConcProcs : Help(p)
    \/ \E p \in ConcProcs : \E opt \in OptNames, arg \in ConcArgVals(p) : SetOpt(p, opt, arg)
    \/ \E p \in ConcProcs : BadInt(p)
    \/ \E p \in ConcProcs : Validate(p)
    \/ \E p \in ConcProcs : ReadFile(p)
    \/ \E p \in ConcProcs : WriteFile(p)

SpecConc == InitConc /\ [][NextConc]_vars

----------------------------------------------------------------------------
(* Properties of file_line_rep, checked under SpecFn *)

FnCalled == fn.pc \in {"once", "twice", "raised"}

FnReturned == fn.pc \in {"once", "twice"}

FnInRange == fn.macro.min <= fn.macro.max /\ fn.macro.min <= fn.t /\ fn.t <= fn.macro.max

\* sub occurs in s with its first character at position i (1-based)
OccursAt(s, sub, i) == i >= 1 /\ i + Len(sub) - 1 <= Len(s) /\ SubSeq(s, i, i + Len(sub) - 1) = sub

Contains(s, sub) == \E i \in 1..Len(s) : OccursAt(s, sub, i)

\* the occurrences of old in s taken from the left without overlap, at or after i
RECURSIVE Occurrences(_, _, _)
Occurrences(s, old, i) ==
    IF i > Len(s) THEN {}
    ELSE IF OccursAt(s, old, i) THEN {i} \cup Occurrences(s, old, i + Len(old))
    ELSE Occurrences(s, old, i + 1)

RECURSIVE Concat(_, _)
Concat(pieces, i) == IF i > Len(pieces) THEN <<>> ELSE pieces[i] \o Concat(pieces, i + 1)

\* s with every occurrence of old replaced by new
EveryOccurrenceReplaced(s, old, new) ==
    LET occ == Occurrences(s, old, 1)
        piece(i) == IF i \in occ THEN new
                    ELSE IF \E o \in occ : o < i /\ i < o + Len(old) THEN <<>>
                    ELSE <<s[i]>>
    IN  Concat([i \in 1..Len(s) |-> piece(i)], 1)

\* line after the replacements for the values min..k, in increasing order,
\* each applied to the result of the ones before it
RECURSIVE AfterValues(_, _, _, _, _)
AfterValues(line, name, min, k, t) ==
    IF k < min THEN line
    ELSE EveryOccurrenceReplaced(AfterValues(line, name, min, k - 1, t),
                                 name \o <<" ">> \o str(k), name \o <<" ">> \o str(t))

\* C1: for a valid range and an in-range target file_line_rep returns a
\* sequence of the same length and order; each line containing the macro
\* name is the input line after replacing, for k = min..max in increasing
\* order and cumulatively, every "<name> <k>" by "<name> <t>"; each line not
\* containing the name is identical to the input line.
C1_LineRewrite ==
    (FnCalled /\ FnInRange) =>
        /\ FnReturned
        /\ Len(fn.res) = Len(fn.fdata)
        /\ \A i \in 1..Len(fn.fdata) :
              fn.res[i] = IF Contains(fn.fdata[i], fn.macro.name)
                          THEN AfterValues(fn.fdata[i], fn.macro.name, fn.macro.min,
                                           fn.macro.max, fn.t)
                          ELSE fn.fdata[i]

\* a call returned in which a line with two different values of the macro
\* was rewritten, after a line without the macro name that kept its "7"
C1_Witness ==
    /\ fn.pc = "once" /\ FnInRange /\ Len(fn.fdata) = 2
    /\ fn.fdata[1] = OtherLine /\ fn.res[1] = OtherLine
    /\ fn.fdata[2] = fn.macro.name \o <<" ","0"," ">> \o fn.macro.name \o <<" ","1","\n">>
    /\ fn.t = 2
    /\ fn.res[2] = fn.macro.name \o <<" ","2"," ">> \o fn.macro.name \o <<" ","2","\n">>

\* C6: for each of the five declared macros and each in-range target,
\* rewriting the result of a rewrite again with the same target changes
\* nothing: rewrite(t, rewrite(t, f)) = rewrite(t, f).
C6_Idempotent ==
    (fn.pc = "twice" /\ fn.macro \in DeclaredMacros) => fn.res2 = fn.res

\* a second rewrite was applied to a file the first rewrite had changed
C6_Witness ==
    /\ fn.pc = "twice" /\ fn.macro \in DeclaredMacros
    /\ fn.res # fn.fdata /\ fn.res2 = fn.res
    /\ \E i \in 1..Len(fn.res) : Contains(fn.res[i], fn.macro.name \o <<" ">> \o str(fn.t))

\* the value token of s that starts at position i: the characters up to the
\* next blank or line end
RECURSIVE TokenAt(_, _)
TokenAt(s, i) ==
    IF i > Len(s) \/ s[i] \in {" ", "\n"} THEN <<>>
    ELSE <<s[i]>> \o TokenAt(s, i + 1)

\* the positions of the value tokens that follow "<name> " in s
ValueTokenStarts(s, name) ==
    {i + Len(name) + 1 : i \in {j \in 1..Len(s) : OccursAt(s, name \o <<" ">>, j)}}

InRangeTokens(m) == {str(k) : k \in m.min..m.max}

\* C8: a rewrite of a declared macro changes nothing but whole integer
\* tokens that follow "<name> ": characters outside such a token are
\* unchanged, and a value token that is not an integer of [min, max]
\* (such as "12") is left as it is.
C8_WholeTokenOnly ==
    (fn.pc = "once" /\ fn.macro \in DeclaredMacros) =>
        \A i \in 1..Len(fn.fdata) :
            LET l == fn.fdata[i]
                starts == ValueTokenStarts(l, fn.macro.name)
            IN  /\ Len(fn.res[i]) = Len(l)
                /\ \A c \in 1..Len(l) :
                      (\A q \in starts : c < q \/ c >= q + Len(TokenAt(l, q)))
                          => fn.res[i][c] = l[c]
                /\ \A q \in starts :
                      TokenAt(l, q) \notin InRangeTokens(fn.macro)
                          => TokenAt(fn.res[i], q) = TokenAt(l, q)

----------------------------------------------------------------------------
(* Properties of a run of the driver, checked under Spec *)

OptOrder == <<"ifft", "ntt", "index_map", "sk", "data_load">>

DeclaredRange == [ifft |-> 0..2, ntt |-> 0..3, index_map |-> 0..4, sk |-> 0..2,
                  data_load |-> 0..2]

MacroName == [ifft |-> IFFT, ntt |-> NTT, index_map |-> INDEX_MAP, sk |-> SK,
              data_load |-> DATA_LOAD]

InRange(p, o) == vals[p][o] \in DeclaredRange[o]

Least(S) == CHOOSE x \in S : \A y \in S : x <= y

Greatest(S) == CHOOSE x \in S : \A y \in S : y <= x

\* the option loop has ended and the values have been checked
Validated(p) == pc[p] \in {"missing", "read", "rep", "raised", "done"}

\* the check found all five values non-negative
AllPresent(p) == pc[p] \in {"read", "rep", "raised", "done"}

\* the j-th macro rewrite call of the run has returned or raised
CallEnded(p, j) == pass[p] > j \/ (pass[p] = j /\ pc[p] \in {"raised", "done"})

Written(p, o) == \E k \in 1..Len(log[p]) : log[p][k] = <<"w", o>>

IsPrefix(a, b) == Len(a) <= Len(b) /\ SubSeq(b, 1, Len(a)) = a

\* C2: a macro rewrite call whose target lies outside the declared range
\* raises, and the file after the call is the file the call read: the write
\* step of that call is never reached.
C2_RangeErrorNoWrite ==
    \A p \in DOMAIN pc : \A j \in 1..Len(OptOrder) :
        LET o == OptOrder[j]
        IN  (AllPresent(p) /\ CallEnded(p, j) /\ ~InRange(p, o)) =>
                /\ pc[p] = "raised" /\ pass[p] = j /\ status[p] = 1
                /\ log[p][Len(log[p])] = <<"r", o>>
                /\ ~Written(p, o)
                /\ file = filedata[p]
                /\ out[p][Len(out[p])].kind = "ERROR"

\* the third call raised on a file the first two calls had changed
C2_Witness ==
    /\ pc[Main] = "raised" /\ pass[Main] = 3 /\ ~InRange(Main, "index_map")
    /\ file = filedata[Main] /\ file # file0

FirstNegative(p) ==
    CHOOSE j \in 1..Len(OptOrder) :
        /\ vals[p][OptOrder[j]] < 0
        /\ \A i \in 1..(j - 1) : vals[p][OptOrder[i]] >= 0

\* C3: when a value is still negative after option parsing, the driver
\* prints the "need to choose" message of the first such value in the order
\* ifft, ntt, index_map, sk, data_load and nothing else, exits with status 0
\* and calls no macro rewrite: the file is unmodified.
C3_MissingOption ==
    \A p \in DOMAIN pc :
        (Validated(p) /\ \E o \in OptNames : vals[p][o] < 0) =>
            /\ pc[p] = "missing" /\ status[p] = 0
            /\ out[p] = <<Msg("need_" \o OptOrder[FirstNegative(p)])>>
            /\ log[p] = <<>>
            /\ file = file0

\* index_map and data_load are missing, the other three are valid: only
\* index_map is reported
C3_Witness ==
    /\ pc[Main] = "missing"
    /\ vals[Main] = [ifft |-> 2, ntt |-> 3, index_map |-> -1, sk |-> 1, data_load |-> -1]
    /\ out[Main] = <<Msg("need_index_map")>>
    /\ file = file0

FullLog == << <<"r", "ifft">>, <<"w", "ifft">>, <<"r", "ntt">>, <<"w", "ntt">>,
              <<"r", "index_map">>, <<"w", "index_map">>, <<"r", "sk">>, <<"w", "sk">>,
              <<"r", "data_load">>, <<"w", "data_load">> >>

RunsAllFive(p) ==
    /\ IsPrefix(log[p], FullLog)
    /\ pc[p] # "raised"
    /\ pc[p] = "done" => (status[p] = 0 /\ log[p] = FullLog)

\* C4 as claimed: whenever all five values are non-negative the driver
\* reads and writes once per macro in the order ifft, ntt, index_map, sk,
\* data_load and ends in Done with status 0.
C4_AllPresentRunsAllFive ==
    \A p \in DOMAIN pc : AllPresent(p) => RunsAllFive(p)

\* C4 as amended: whenever all five values are non-negative and each lies
\* in its macro's declared range, the driver reads and writes once per
\* macro in the order ifft, ntt, index_map, sk, data_load, each read followed
\* by its write before the next read, and ends in Done with status 0.
C4_InRangeRunsAllFive ==
    \A p \in DOMAIN pc :
        (AllPresent(p) /\ \A o \in OptNames : InRange(p, o)) => RunsAllFive(p)

C4_Witness ==
    /\ pc[Main] = "done" /\ status[Main] = 0 /\ log[Main] = FullLog
    /\ \A o \in OptNames : InRange(Main, o)

IsDefLineOf(l, o) == \E k \in DeclaredRange[o] : l = DefLine(MacroName[o], k)

MentionsMacro(l) == \E o \in OptNames : Contains(l, MacroName[o])

\* every line is "#define <MACRO> <k>" with k in the macro's range, or does
\* not mention a recognized macro at all
WellFormed(f) ==
    \A i \in 1..Len(f) : (\E o \in OptNames : IsDefLineOf(f[i], o)) \/ ~MentionsMacro(f[i])

\* C5: on a file of "#define <MACRO> <k>" lines with k in range and five
\* in-range targets, every line of a macro whose pass has written carries
\* that macro's target from then on, every line of a macro whose pass has
\* not written and every other line is as in the input; after the complete
\* run each macro's lines carry its own target.
C5_EndToEnd ==
    \A p \in DOMAIN pc :
        (AllPresent(p) /\ WellFormed(file0) /\ \A o \in OptNames : InRange(p, o)) =>
            /\ Len(file) = Len(file0)
            /\ \A i \in 1..Len(file0) :
                  /\ \A o \in OptNames :
                        IsDefLineOf(file0[i], o) =>
                            file[i] = IF Written(p, o)
                                      THEN DefLine(MacroName[o], vals[p][o])
                                      ELSE file0[i]
                  /\ ~MentionsMacro(file0[i]) => file[i] = file0[i]

\* the example of the specification: IFFT 0 / NTT 1 with ifft=2, ntt=3 and
\* the three absent macros set to 0
C5_Witness ==
    /\ pc[Main] = "done" /\ file0 = FileExample
    /\ vals[Main] = [ifft |-> 2, ntt |-> 3, index_map |-> 0, sk |-> 0, data_load |-> 0]
    /\ file = <<DefLine(IFFT, 2), DefLine(NTT, 3)>>

IfftFiveOthersValid(p) ==
    /\ vals[p].ifft = 5
    /\ \A o \in OptNames \ {"ifft"} : InRange(p, o)

\* C7 as claimed: with ifft = 5 and the other four valid the run aborts
\* before any index_map, sk or data_load write, the ifft and ntt passes
\* having been processed before the abort.
C7_AbortAfterIfftNtt ==
    \A p \in DOMAIN pc :
        (pc[p] = "raised" /\ IfftFiveOthersValid(p)) =>
            /\ \A o \in {"index_map", "sk", "data_load"} : ~Written(p, o)
            /\ Written(p, "ifft") /\ Written(p, "ntt")

\* C7 as amended: with ifft = 5 and the other four valid the run aborts
\* with a range error in the first (ifft) pass, after reading the file and
\* before any write: no line, the ifft and ntt lines included, is rewritten
\* and the file is the input file.
C7_AbortBeforeAnyWrite ==
    \A p \in DOMAIN pc :
        (AllPresent(p) /\ IfftFiveOthersValid(p)) =>
            /\ pass[p] = 1 /\ pc[p] \in {"read", "rep", "raised"}
            /\ \A o \in OptNames : ~Written(p, o)
            /\ file = file0
            /\ pc[p] = "raised" => (status[p] = 1 /\ log[p] = << <<"r", "ifft">> >>)

C7_Witness ==
    /\ pc[Main] = "raised" /\ IfftFiveOthersValid(Main)
    /\ vals[Main].ntt = 3
    /\ file0 = FileExample /\ file = FileExample

FirstOutOfRange(p) ==
    CHOOSE j \in 1..Len(OptOrder) :
        /\ ~InRange(p, OptOrder[j])
        /\ \A i \in 1..(j - 1) : InRange(p, OptOrder[i])

\* the input after the rewrites of the first j macros with p's targets
RECURSIVE Applied(_, _, _)
Applied(f, p, j) ==
    IF j = 0 THEN f
    ELSE LET g == Applied(f, p, j - 1)
             o == OptOrder[j]
         IN  [i \in 1..Len(g) |->
                 AfterValues(g[i], MacroName[o], Least(DeclaredRange[o]),
                             Greatest(DeclaredRange[o]), vals[p][o])]

\* C9: when all five values are non-negative and the first out-of-range
\* one belongs to the j-th macro, the run aborts during the j-th pass; the
\* file at the abort is the input with the rewrites of macros 1..j-1
\* applied, and every line that mentions none of the macros 1..j-1 is as
\* in the input.
C9_PartialApplication ==
    \A p \in DOMAIN pc :
        (AllPresent(p) /\ \E o \in OptNames : ~InRange(p, o)) =>
            LET j == FirstOutOfRange(p)
            IN  /\ pass[p] <= j /\ pc[p] # "done"
                /\ pc[p] = "raised" =>
                      /\ pass[p] = j /\ status[p] = 1
                      /\ \A i \in 1..Len(OptOrder) : Written(p, OptOrder[i]) <=> i < j
                      /\ file = Applied(file0, p, j - 1)
                      /\ Len(file) = Len(file0)
                      /\ \A i \in 1..Len(file0) :
                            (\A k \in 1..(j - 1) : ~Contains(file0[i], MacroName[OptOrder[k]]))
                                => file[i] = file0[i]

\* the sk pass raised after three passes had changed the file
C9_Witness ==
    /\ pc[Main] = "raised" /\ pass[Main] = 4 /\ ~InRange(Main, "sk")
    /\ file0 = FileShuffled
    /\ file # file0
    /\ file[2] = DefLine(IFFT, vals[Main].ifft) /\ file[2] # file0[2]
    /\ file[3] = file0[3] /\ file[1] = file0[1]

----------------------------------------------------------------------------
(* Properties of two concurrent runs, checked under SpecConc *)

\* the file after a complete run of p, then of q, on f
Serial(f, p, q) == Applied(Applied(f, p, Len(OptOrder)), q, Len(OptOrder))

BothDone == \A p \in ConcProcs : pc[p] = "done" /\ status[p] = 0

\* C10: two invocations on the same file do not notice each other: an
\* invocation whose five targets are in range reads and writes five times
\* and ends in Done with status 0 whatever the other one does, and when
\* both are done each macro line carries the target of one of the two or
\* its input value, put back by a write from lines read earlier (the last
\* writer wins).  The witness is a final file that neither serial order of
\* the two runs produces.
C10_NoDetection ==
    /\ \A p \in DOMAIN pc :
          (AllPresent(p) /\ \A o \in OptNames : InRange(p, o)) => RunsAllFive(p)
    /\ (DOMAIN pc = ConcProcs /\ BothDone) =>
          /\ Len(file) = Len(file0)
          /\ \A i \in 1..Len(file0) : \A o \in OptNames :
                IsDefLineOf(file0[i], o) =>
                    \/ file[i] = file0[i]
                    \/ \E p \in ConcProcs : file[i] = DefLine(MacroName[o], vals[p][o])

\* both runs are done without an error, a write was made from lines read
\* before the other run's last write, and the file carries targets of both
\* runs: it is the result of neither serial order
C10_Witness ==
    /\ DOMAIN pc = ConcProcs /\ BothDone /\ stale
    /\ file # Serial(file0, 1, 2) /\ file # Serial(file0, 2, 1)
    /\ \E i, k \in 1..Len(file) :
          /\ file[i] = DefLine(NTT, vals[1].ntt) /\ vals[1].ntt # vals[2].ntt
          /\ file[k] = DefLine(SK, vals[2].sk) /\ vals[1].sk # vals[2].sk

====
